---- MODULE Spec2Model ----
(***************************************************************************)
(* ptr_meta: decomposition of (possibly wide) raw pointers into a data     *)
(* address and metadata, reconstruction from the two halves, the           *)
(* DynMetadata vtable handle, and the Pointee derive / pointee attribute   *)
(* macros of ptr_meta_derive.                                              *)
(*                                                                         *)
(* Two specifications:                                                     *)
(*   Spec     the run-time codec and DynMetadata (ptr_meta/src/lib.rs)     *)
(*   SpecGen  one expansion of a macro (ptr_meta_derive/src)               *)
(***************************************************************************)
EXTENDS Integers, Sequences, FiniteSets, TLC

\* ------------------------------------------------------------------ bounds

\* Data addresses are 0..MaxAddr; 0 is the null address.
MaxAddr == 2
\* Slice and str lengths are 0..MaxLen, plus LargeLen.
MaxLen == 3
\* A large length (stands for a count near usize::MAX).
LargeLen == 200
\* Codegen units of the build: each may hold its own copy of a vtable.
NumCGU == 2
\* Tokens in the argument list of one attribute.
MaxToks == 3
\* Attributes on the item handed to the derive.
MaxAttrs == 2
\* Fields of a struct handed to the derive.
MaxFields == 2
\* Threads that call into the crate at the same time.
NumThreads == 2

\* ------------------------------------------------------------------ types

\* Sized concrete types the callers use, with their size and alignment.
SizedTypes == {"()", "i32", "u64", "[i32; 4]", "A", "B"}

SizeOfTy(t) ==
    CASE t = "()" -> 0
      [] t = "A" -> 0
      [] t = "i32" -> 4
      [] t = "B" -> 4
      [] t = "u64" -> 8
      [] t = "[i32; 4]" -> 16

AlignOfTy(t) ==
    CASE t = "()" -> 1
      [] t = "A" -> 1
      [] t = "i32" -> 4
      [] t = "B" -> 4
      [] t = "u64" -> 8
      [] t = "[i32; 4]" -> 4

\* Slices and str: the length-tagged types.
SliceTypes == {"[i32]", "[u8]", "[T]"}
StrTypes == {"str"}

\* Trait objects: dyn Any (impls.rs) and the traits the pointee attribute
\* is applied to in the tests.
DynTypes == {"dyn Any", "dyn TestTrait", "dyn TestTrait<u32>"}

\* Method entries of a contract's vtable, after drop, size and align.
MethodsOf(d) ==
    CASE d = "dyn Any" -> <<"type_id">>
      [] d = "dyn TestTrait" -> <<"foo">>
      [] d = "dyn TestTrait<u32>" -> <<>>

\* Which concrete types implement which contract. dyn Any is implemented by
\* every 'static type; the others by the impl blocks of their callers.
Implements(c, d) ==
    CASE d = "dyn Any" -> c \in SizedTypes
      [] d = "dyn TestTrait" -> c \in {"A", "B"}
      [] d = "dyn TestTrait<u32>" -> c \in {"()", "A"}

\* Structs with a trailing dynamically sized field, as handed to the derive.
NoWhere == <<>>

NoAttrs == <<>>

\* A generic parameter: its name and the bound written on it ("" for none).
Param(n, b) == [name |-> n, bound |-> b]

TestStruct ==
    [attrs |-> NoAttrs, ident |-> "Test", data |-> "Struct",
     fields |-> <<"H", "[T]">>,
     params |-> <<Param("H", ""), Param("T", "")>>, preds |-> NoWhere]

TestDyn ==
    [attrs |-> NoAttrs, ident |-> "TestDyn", data |-> "Struct",
     fields |-> <<"dyn Any">>, params |-> <<>>, preds |-> NoWhere]

TestCustomDyn ==
    [attrs |-> NoAttrs, ident |-> "TestCustomDyn", data |-> "Struct",
     fields |-> <<"dyn TestTrait">>, params |-> <<>>, preds |-> NoWhere]

StructTypes == {"Test", "TestDyn", "TestCustomDyn"}

StructDef(t) ==
    CASE t = "Test" -> TestStruct
      [] t = "TestDyn" -> TestDyn
      [] t = "TestCustomDyn" -> TestCustomDyn

PointeeTypes == SizedTypes \cup SliceTypes \cup StrTypes \cup DynTypes \cup StructTypes

\* Traits the pointee attribute is applied to, as handed to the macro.
TestTrait ==
    [keyword |-> "trait", ident |-> "TestTrait", params |-> <<>>,
     preds |-> NoWhere, items |-> <<"foo">>]

TestTraitGeneric ==
    [keyword |-> "trait", ident |-> "TestTrait",
     params |-> <<Param("T", "?Sized")>>, preds |-> NoWhere, items |-> <<>>]

TraitDef(d) ==
    CASE d = "dyn TestTrait" -> TestTrait
      [] d = "dyn TestTrait<u32>" -> TestTraitGeneric

\* -------------------------------------------------- ptr_meta_derive: options

\* Option<T>: None is the empty sequence, Some(v) the sequence of v alone.
None == <<>>
Some(v) == <<v>>

NoError == ""

\* Attributes::default()
DefaultAttributes == [crate_path |-> None]

\* Tokens of an attribute's argument list. "crate" is the keyword, "foo" any
\* other identifier (a path of one segment), "1" a literal.
Tokens == {"crate", "foo", "=", ",", "1"}

\* Tokens that syn parses as a Path.
IsPathTok(t) == t \in {"crate", "foo"}

\* A slip: the attribute is set whether or not it was set before.
try_set_attribute_overwrite(attribute, value, name) ==
    [attribute |-> Some(value), err |-> NoError]

\* try_set_attribute, on the one attribute there is (crate_path): the new
\* value of the attribute and the error, if any.
try_set_attribute(attribute, value, name) ==
    IF attribute = None
    THEN [attribute |-> Some(value), err |-> NoError]
    ELSE [attribute |-> attribute, err |-> "crate already specified"]

\* A slip: an argument of another name is passed over, up to the next
\* comma, where an error is due.
RECURSIVE SkipToComma(_)
SkipToComma(input) ==
    IF input = <<>> \/ Head(input) = "," THEN input ELSE SkipToComma(Tail(input))

parse_meta_lenient(self, path, input) ==
    IF path = "crate"
    THEN IF input # <<>> /\ Head(input) = "="
         THEN LET rest == Tail(input) IN
              IF rest # <<>> /\ IsPathTok(Head(rest))
              THEN LET r == try_set_attribute(self.crate_path, Head(rest), "crate") IN
                   [attributes |-> [self EXCEPT !.crate_path = r.attribute],
                    input |-> Tail(rest), err |-> r.err]
              ELSE [attributes |-> self, input |-> rest, err |-> "expected path"]
         ELSE IF input = <<>> \/ Head(input) = ","
              THEN LET r == try_set_attribute(self.crate_path, "crate", "crate") IN
                   [attributes |-> [self EXCEPT !.crate_path = r.attribute],
                    input |-> input, err |-> r.err]
              ELSE [attributes |-> self, input |-> input,
                    err |-> "expected crate or crate = ..."]
    ELSE [attributes |-> self, input |-> SkipToComma(input), err |-> NoError]

\* Attributes::parse_meta: self, the nested meta's path, and the input that
\* follows it. Yields the attributes, the input left unread and the error.
parse_meta(self, path, input) ==
    IF path = "crate"
    THEN IF input # <<>> /\ Head(input) = "="
         THEN LET rest == Tail(input) IN
              IF rest # <<>> /\ IsPathTok(Head(rest))
              THEN LET r == try_set_attribute(self.crate_path, Head(rest), "crate") IN
                   [attributes |-> [self EXCEPT !.crate_path = r.attribute],
                    input |-> Tail(rest), err |-> r.err]
              ELSE [attributes |-> self, input |-> rest, err |-> "expected path"]
         ELSE IF input = <<>> \/ Head(input) = ","
              THEN LET r == try_set_attribute(self.crate_path, "crate", "crate") IN
                   [attributes |-> [self EXCEPT !.crate_path = r.attribute],
                    input |-> input, err |-> r.err]
              ELSE [attributes |-> self, input |-> input,
                    err |-> "expected crate or crate = ..."]
    ELSE [attributes |-> self, input |-> input,
          err |-> "unrecognized ptr_meta argument"]

\* One turn of syn's parse_nested_meta loop over a non-empty input: the
\* meta's path, the callback (parse_meta), then the separating comma.
nested_meta_step(self, input) ==
    IF ~IsPathTok(Head(input))
    THEN [attributes |-> self, input |-> input, err |-> "expected path"]
    ELSE LET comma(r) ==
                 IF r.err # NoError THEN r
                 ELSE IF r.input = <<>> THEN r
                 ELSE IF Head(r.input) # ","
                      THEN [attributes |-> r.attributes, input |-> r.input,
                            err |-> "expected ,"]
                      ELSE [attributes |-> r.attributes, input |-> Tail(r.input),
                            err |-> NoError]
         IN  comma(parse_meta(self, Head(input), Tail(input)))

\* parse_nested_meta: the loop, to the end of the input or the first error.
RECURSIVE parse_nested_meta(_, _)
parse_nested_meta(self, input) ==
    IF input = <<>>
    THEN [attributes |-> self, input |-> input, err |-> NoError]
    ELSE LET rest(r) ==
                 IF r.err # NoError THEN r ELSE parse_nested_meta(r.attributes, r.input)
         IN  rest(nested_meta_step(self, input))

\* Whether Attributes::parse reads an attribute: outer style, named ptr_meta.
IsPtrMetaAttr(attr) == attr.style = "Outer" /\ attr.path = "ptr_meta"

\* Attributes::parse: the attributes of the item, in order.
RECURSIVE parse_from(_, _)
parse_from(result, attrs) ==
    IF attrs = <<>>
    THEN [attributes |-> result, err |-> NoError]
    ELSE IF ~IsPtrMetaAttr(Head(attrs))
         THEN parse_from(result, Tail(attrs))
         ELSE LET try(r) ==
                      IF r.err # NoError
                      THEN [attributes |-> r.attributes, err |-> r.err]
                      ELSE parse_from(r.attributes, Tail(attrs))
              IN  try(parse_nested_meta(result, Head(attrs).toks))

parse(attrs) == parse_from(DefaultAttributes, attrs)

\* Attributes::crate_path
crate_path(self) ==
    IF self.crate_path = None THEN "::ptr_meta" ELSE self.crate_path[1]

\* ------------------------------------------------ ptr_meta_derive: generator

\* A Result<TokenStream, Error>: the emitted items, or the error.
Ok(items) == [out |-> items, err |-> NoError]
Err(msg) == [out |-> <<>>, err |-> msg]

\* Generics::split_for_impl: the parameter names, as written after the type.
ty_generics(params) == [i \in 1..Len(params) |-> params[i].name]

\* Generics::split_for_impl: the parameters as written after impl, each
\* with its name and its bound and without its default.
impl_generics(params) ==
    [i \in 1..Len(params) |-> [name |-> params[i].name, bound |-> params[i].bound]]

\* A slip: the where clause made anew, the predicates of the item lost.
push_to_new_where_clause(predicates, predicate) == <<predicate>>

\* input.generics.make_where_clause().predicates.push(...)
push(predicates, predicate) == Append(predicates, predicate)

\* A slip: fields.iter().next(), the first field.
first_field(fields) == 1

\* fields.iter().last(): the index of the field the association follows.
last_field(fields) == Len(fields)

\* A slip: a struct without fields is given the empty metadata.
derive_generate_empty_unit(input, attributes) ==
    IF input.data = "Enum"
    THEN Err("enums always have a provided Pointee impl because they cannot be dynamically-sized")
    ELSE IF input.data = "Union"
    THEN Err("unions always have an provided Pointee impl because they cannot be dynamically-sized")
    ELSE LET pointee == <<crate_path(attributes), "Pointee">>
             last_field_ty ==
                 IF input.fields = <<>> THEN "()"
                 ELSE input.fields[Len(input.fields)]
         IN  Ok(<<[kind |-> "impl",
                   impl_generics |-> impl_generics(input.params),
                   trait |-> pointee,
                   self_ty |-> [ident |-> input.ident,
                                ty_generics |-> ty_generics(input.params)],
                   where |-> push(input.preds,
                                  [ty |-> last_field_ty, bound |-> pointee]),
                   Metadata |-> [qself |-> last_field_ty, trait |-> pointee,
                                 name |-> "Metadata"]]>>)

\* derive_pointee_impl from line 34 on: the attributes are parsed, the
\* shape is inspected and the association is emitted.
derive_generate(input, attributes) ==
    IF input.data = "Enum"
    THEN Err("enums always have a provided Pointee impl because they cannot be dynamically-sized")
    ELSE IF input.data = "Union"
    THEN Err("unions always have an provided Pointee impl because they cannot be dynamically-sized")
    ELSE IF input.fields = <<>>
    THEN Err("fieldless structs always have a provided Poitnee impl because they cannot be dynamically-sized")
    ELSE LET last_field_ty == input.fields[last_field(input.fields)]
             pointee == <<crate_path(attributes), "Pointee">>
         IN  Ok(<<[kind |-> "impl",
                   impl_generics |-> impl_generics(input.params),
                   trait |-> pointee,
                   self_ty |-> [ident |-> input.ident,
                                ty_generics |-> ty_generics(input.params)],
                   where |-> push(input.preds,
                                  [ty |-> last_field_ty, bound |-> pointee]),
                   Metadata |-> [qself |-> last_field_ty, trait |-> pointee,
                                 name |-> "Metadata"]]>>)

\* derive_pointee_impl
derive_pointee_impl(input) ==
    LET try(r) ==
            IF r.err # NoError THEN Err(r.err) ELSE derive_generate(input, r.attributes)
    IN  try(parse(input.attrs))

\* Error::to_compile_error
to_compile_error(msg) == <<[kind |-> "compile_error", msg |-> msg]>>

\* A slip: the association for the trait object with Send is emitted too.
pointee_impl_with_send(attributes, item) ==
    Ok(<<[kind |-> "trait", item |-> item],
         [kind |-> "impl",
          impl_generics |-> impl_generics(item.params),
          trait |-> <<crate_path(attributes), "Pointee">>,
          self_ty |-> [dyn |-> item.ident,
                       ty_generics |-> ty_generics(item.params),
                       markers |-> {}, lifetime |-> "'_"],
          where |-> item.preds,
          Metadata |-> <<crate_path(attributes), "DynMetadata", "Self">>],
         [kind |-> "impl",
          impl_generics |-> impl_generics(item.params),
          trait |-> <<crate_path(attributes), "Pointee">>,
          self_ty |-> [dyn |-> item.ident,
                       ty_generics |-> ty_generics(item.params),
                       markers |-> {"Send"}, lifetime |-> "'_"],
          where |-> item.preds,
          Metadata |-> <<crate_path(attributes), "DynMetadata", "Self">>]>>)

\* pointee_impl: the trait itself, then the association for its trait object.
pointee_impl(attributes, item) ==
    Ok(<<[kind |-> "trait", item |-> item],
         [kind |-> "impl",
          impl_generics |-> impl_generics(item.params),
          trait |-> <<crate_path(attributes), "Pointee">>,
          self_ty |-> [dyn |-> item.ident,
                       ty_generics |-> ty_generics(item.params),
                       markers |-> {}, lifetime |-> "'_"],
          where |-> item.preds,
          Metadata |-> <<crate_path(attributes), "DynMetadata", "Self">>]>>)

\* ------------------------------------------------------ the Pointee trait

\* impls.rs: the associations written by hand for dyn Any, alone and with
\* Send, with Sync and with both. Each names the trait object it is for,
\* and the trait object its DynMetadata is parameterized by.
AnyImpls ==
    {[self_ty |-> [dyn |-> "Any", markers |-> {}],
      Metadata |-> <<"DynMetadata", [dyn |-> "Any", markers |-> {}]>>],
     [self_ty |-> [dyn |-> "Any", markers |-> {"Send"}],
      Metadata |-> <<"DynMetadata", [dyn |-> "Any", markers |-> {"Send"}]>>],
     [self_ty |-> [dyn |-> "Any", markers |-> {"Sync"}],
      Metadata |-> <<"DynMetadata", [dyn |-> "Any", markers |-> {"Sync"}]>>],
     [self_ty |-> [dyn |-> "Any", markers |-> {"Send", "Sync"}],
      Metadata |-> <<"DynMetadata", [dyn |-> "Any", markers |-> {"Send", "Sync"}]>>]}

UnitTy == <<"()">>
UsizeTy == <<"usize">>
DynMetadataTy(d) == <<"DynMetadata", d>>

\* <T as Pointee>::Metadata: the impls of lib.rs and impls.rs, and for the
\* structs and traits of the tests the impls the macros emit for them.
RECURSIVE PointeeMetadata(_)
PointeeMetadata(T) ==
    IF T \in SliceTypes \cup StrTypes THEN UsizeTy
    ELSE IF T = "dyn Any" THEN DynMetadataTy("dyn Any")
    ELSE IF T \in DynTypes
    THEN LET of(impl) ==
                 <<impl.Metadata[2], IF impl.Metadata[3] = "Self" THEN T ELSE impl.Metadata[3]>>
         IN  of(pointee_impl(DefaultAttributes, TraitDef(T)).out[2])
    ELSE IF T \in StructTypes
    THEN LET of(r) ==
                 IF r.err # NoError THEN UnitTy
                 ELSE PointeeMetadata(r.out[1].Metadata.qself)
         IN  of(derive_pointee_impl(StructDef(T)))
    ELSE UnitTy

\* Words a metadata value of the given type occupies.
MetadataWords(mty) == IF mty = UnitTy THEN 0 ELSE 1

\* Metadata values: their type and their words.
Unit == [ty |-> UnitTy, bits |-> <<>>]
Usize(n) == [ty |-> UsizeTy, bits |-> <<n>>]
DynMetadata(d, vtable_ptr) == [ty |-> DynMetadataTy(d), bits |-> <<vtable_ptr>>]

\* ----------------------------------------------------------- the codec

\* A raw pointer: its pointee type, its kind (*const, *mut or NonNull) and
\* its words: the data address, then the words of the metadata.
Ptr(T, kind, words) == [ty |-> T, kind |-> kind, bits |-> words]

\* A slip: the two fields of PtrComponents in the other order.
PtrRepr_components_swapped(data_address, meta) == meta.bits \o data_address.bits

\* PtrRepr written through its components field: the words of the union.
PtrRepr_components(data_address, meta) == data_address.bits \o meta.bits

\* A slip: the metadata read from the first word of the union on.
PtrRepr_metadata_first_word(T, words) ==
    LET as(mty) == [ty |-> mty, bits |-> SubSeq(words, 1, MetadataWords(mty))]
    IN  as(PointeeMetadata(T))

\* PtrRepr read through its components field, metadata half: the words
\* after the data address, as the metadata type of T.
PtrRepr_metadata(T, words) ==
    LET as(mty) == [ty |-> mty, bits |-> SubSeq(words, 2, 1 + MetadataWords(mty))]
    IN  as(PointeeMetadata(T))

\* metadata
metadata(ptr) == PtrRepr_metadata(ptr.ty, ptr.bits)

\* A slip: a null data address is checked for, and answered by a null
\* pointer of empty metadata.
from_raw_parts_checked(T, data_address, meta) ==
    IF data_address.bits[1] = 0
    THEN Ptr(T, "const", <<0>> \o [i \in 1..Len(meta.bits) |-> 0])
    ELSE Ptr(T, "const", PtrRepr_components(data_address, meta))

\* from_raw_parts
from_raw_parts(T, data_address, meta) ==
    Ptr(T, "const", PtrRepr_components(data_address, meta))

\* from_raw_parts_mut
from_raw_parts_mut(T, data_address, meta) ==
    Ptr(T, "mut", PtrRepr_components(data_address, meta))

\* NonNull::as_ptr and NonNull::new_unchecked
as_ptr(nn) == [nn EXCEPT !.kind = "mut"]
new_unchecked(p) == [p EXCEPT !.kind = "NonNull"]

\* NonNullExt::from_raw_parts
NonNull_from_raw_parts(T, raw_ptr, meta) ==
    new_unchecked(from_raw_parts_mut(T, as_ptr(raw_ptr), meta))

\* self as Self::Raw: the cast to a pointer to () keeps the data address
\* and drops the metadata.
CastToRaw(ptr) == Ptr("()", ptr.kind, <<ptr.bits[1]>>)

\* PtrExt::to_raw_parts, for *const T, *mut T and NonNull<T>
to_raw_parts(ptr) == [raw |-> CastToRaw(ptr), meta |-> metadata(ptr)]

\* ------------------------------------------------------------ the build

\* The concrete types and contracts, in the order the build lays out their
\* vtables.
ConcreteSeq == <<"()", "A", "B", "i32", "u64", "[i32; 4]">>
DynSeq == <<"dyn Any", "dyn TestTrait", "dyn TestTrait<u32>">>

IndexIn(seq, x) == CHOOSE i \in 1..Len(seq) : seq[i] = x

\* The builds: whether the codegen units each keep their own copy of a
\* vtable (dup), whether vtables of equal contents under one contract are
\* merged into one (merge), and whether the build is for miri.
Builds == [dup : BOOLEAN, merge : BOOLEAN, miri : BOOLEAN]

\* Slots of a vtable, in pointer-sized units from its start.
DropSlot == 0
SizeSlot == 1
AlignSlot == 2
MethodSlot == 3

\* Words from one vtable to the next in static memory.
TableStride == MethodSlot + 1

NumTables == Len(DynSeq) * Len(ConcreteSeq) * NumCGU

\* Static memory follows the data addresses; code follows the vtables.
VTableBase == MaxAddr + 1
CodeBase == VTableBase + TableStride * NumTables

\* The address of c's implementation of the method of contract d.
FnAddr(c, d) == CodeBase + (IndexIn(DynSeq, d) - 1) * Len(ConcreteSeq) + IndexIn(ConcreteSeq, c)

\* drop_in_place: none of the concrete types has drop glue.
DropGlue(c) == 0

\* The words of the vtable of concrete type c under contract d.
VTableWords(c, d) ==
    <<DropGlue(c), SizeOfTy(c), AlignOfTy(c)>>
        \o [i \in 1..Len(MethodsOf(d)) |-> FnAddr(c, d)]

\* The vtable instance a coercion of c to d in codegen unit g refers to.
CanonicalType(b, c, d) ==
    IF b.merge
    THEN ConcreteSeq[CHOOSE i \in 1..Len(ConcreteSeq) :
            /\ Implements(ConcreteSeq[i], d)
            /\ VTableWords(ConcreteSeq[i], d) = VTableWords(c, d)
            /\ \A j \in 1..(i - 1) :
                  ~(Implements(ConcreteSeq[j], d)
                    /\ VTableWords(ConcreteSeq[j], d) = VTableWords(c, d))]
    ELSE c

CanonicalUnit(b, g) == IF b.dup THEN g ELSE 1

TableIndex(c, d, g) ==
    ((IndexIn(DynSeq, d) - 1) * Len(ConcreteSeq) + (IndexIn(ConcreteSeq, c) - 1)) * NumCGU
        + (g - 1)

VTableAddr(b, c, d, g) ==
    VTableBase + TableStride * TableIndex(CanonicalType(b, c, d), d, CanonicalUnit(b, g))

\* The (type, contract, unit) triples that have a vtable.
TableKeys ==
    {k \in (SizedTypes \X DynTypes) \X (1..NumCGU) : Implements(k[1][1], k[1][2])}

\* The triples whose vtable instance is at address v.
KeysAt(b, v) == {k \in TableKeys : VTableAddr(b, k[1][1], k[1][2], k[2]) = v}

StaticAddrs == VTableBase..(CodeBase - 1)

\* Static memory as the build lays it out: the vtables, zero elsewhere.
StaticMemory(b) ==
    [a \in StaticAddrs |->
        LET v == a - ((a - VTableBase) % TableStride)
            ks == KeysAt(b, v)
        IN  IF ks = {} THEN 0
            ELSE LET k == CHOOSE k \in ks : TRUE
                     w == VTableWords(k[1][1], k[1][2])
                     slot == a - v
                 IN  IF slot + 1 <= Len(w) THEN w[slot + 1] ELSE 0]

\* ------------------------------------------------------------- the state

VARIABLES
    build,      \* the build the program was made by
    mem,        \* static memory: the vtables
    op,         \* the operation last performed
    ptr,        \* Option: the pointer formed from a value
    origin,     \* Option: the value ptr was formed from
    raw,        \* Option: a data address and a metadata value
    re_ptr,     \* Option: the pointer from_raw_parts returned
    re_raw,     \* Option: what to_raw_parts returned for re_ptr
    meta,       \* Option: what metadata returned for ptr
    handles,    \* two slots of Option: DynMetadata handles and their origin
    res,        \* Option: the result of the last query on the handles
    g_macro,    \* macro expansion: "derive", "pointee" or "" (none running)
    g_pc,       \* macro expansion: the step the expansion is at
    g_nattr,    \* macro expansion: attributes of the item read so far
    g_attr,     \* macro expansion: Option, the attribute being read
    g_toks,     \* macro expansion: the unread tokens of that attribute
    g_meta,     \* macro expansion: Option, the nested meta last parsed
    attributes, \* macro expansion: the Attributes being filled in
    g_shape,    \* macro expansion: the kind of item the macro is applied to
    g_input,    \* macro expansion: Option, the item, once it is looked at
    g_inspected, \* macro expansion: whether the shape of the item was looked at
    g_err,      \* macro expansion: the error, or NoError
    g_out,      \* macro expansion: the token stream returned
    threads,    \* per thread: the call it is in, its argument and progress
    repr        \* per thread: the PtrRepr union on its stack, while it lives

rt_vars == <<build, mem, op, ptr, origin, raw, re_ptr, re_raw, meta, handles, res>>
gen_vars ==
    <<g_macro, g_pc, g_nattr, g_attr, g_toks, g_meta, attributes, g_shape,
      g_input, g_inspected, g_err, g_out>>
conc_vars == <<threads, repr>>
vars == <<rt_vars, gen_vars, conc_vars>>

\* ------------------------------------------------------------ DynMetadata

\* self.vtable_ptr
vtable_ptr(self) == self.bits[1]

\* The concrete type the vtable instance at address v was emitted for.
VTableType(v) ==
    ConcreteSeq[((((v - VTableBase) \div TableStride) \div NumCGU) % Len(ConcreteSeq)) + 1]

\* core::intrinsics::vtable_size: the size of the type the vtable is for.
vtable_size(v) == SizeOfTy(VTableType(v))

\* core::intrinsics::vtable_align
vtable_align(v) == AlignOfTy(VTableType(v))

\* A slip: the slots counted from one, so that slot n is read at n - 1.
read_usize_from_one(p, n) == mem[p + n - 1]

\* (p as *const usize).add(n).read()
read_usize(p, n) == mem[p + n]

\* A slip: the size read from the slot of the alignment.
size_of_align_slot(self) ==
    IF build.miri THEN vtable_align(vtable_ptr(self))
    ELSE read_usize(vtable_ptr(self), AlignSlot)

\* DynMetadata::size_of
size_of(self) ==
    IF build.miri THEN vtable_size(vtable_ptr(self))
    ELSE read_usize(vtable_ptr(self), SizeSlot)

\* DynMetadata::align_of
align_of(self) ==
    IF build.miri THEN vtable_align(vtable_ptr(self))
    ELSE read_usize(vtable_ptr(self), AlignSlot)

\* Layout::from_size_align_unchecked
from_size_align_unchecked(size, align) == [size |-> size, align |-> align]

\* DynMetadata::layout
layout(self) == from_size_align_unchecked(size_of(self), align_of(self))

\* A slip: equality of the contents of the two vtables.
eq_structural(self, other) ==
    \A i \in 0..(TableStride - 1) :
        read_usize(vtable_ptr(self), i) = read_usize(vtable_ptr(other), i)

\* A slip: equality of the layouts the two vtables record.
eq_layout(self, other) ==
    /\ read_usize(vtable_ptr(self), SizeSlot) = read_usize(vtable_ptr(other), SizeSlot)
    /\ read_usize(vtable_ptr(self), AlignSlot) = read_usize(vtable_ptr(other), AlignSlot)

\* PartialEq::eq: core::ptr::eq on the vtable pointers
eq(self, other) == vtable_ptr(self) = vtable_ptr(other)

\* Ord::cmp: the order of the vtable pointers
cmp(self, other) ==
    IF vtable_ptr(self) < vtable_ptr(other) THEN "Less"
    ELSE IF vtable_ptr(self) = vtable_ptr(other) THEN "Equal"
    ELSE "Greater"

\* PartialOrd::partial_cmp
partial_cmp(self, other) == Some(cmp(self, other))

\* Hash::hash: core::ptr::hash writes the address to the hasher. A hasher
\* is the sequence of the words written to it.
hash(self, hasher) == Append(hasher, vtable_ptr(self))

\* ------------------------------------------------------------ references

Lens == (0..MaxLen) \cup {LargeLen}
PtrKinds == {"const", "mut", "NonNull"}

\* The pointee types pointers are formed to at run time.
RuntimeTypes == PointeeTypes \ {"[T]"}

\* The last field of a struct: the one field that may be dynamically sized.
StructTail(T) == LET f == StructDef(T).fields IN f[Len(f)]

\* Whether a value of concrete type c (for a trait object), or of n
\* elements (for a slice or str), can be referred to as a T.
RECURSIVE ValidReferent(_, _, _)
ValidReferent(T, c, n) ==
    IF T \in StructTypes THEN ValidReferent(StructTail(T), c, n)
    ELSE IF T \in DynTypes THEN c \in SizedTypes /\ Implements(c, T) /\ n = 0
    ELSE IF T \in SliceTypes \cup StrTypes THEN c = "" /\ n \in Lens
    ELSE c = "" /\ n = 0

\* Whether references to T carry a vtable pointer.
RECURSIVE IsDynTailed(_)
IsDynTailed(T) ==
    IF T \in StructTypes THEN IsDynTailed(StructTail(T)) ELSE T \in DynTypes

\* The words the compiler puts after the data address in a reference to T:
\* nothing, the length, or the address of the vtable.
RECURSIVE WideWords(_, _, _, _)
WideWords(T, c, n, g) ==
    IF T \in StructTypes THEN WideWords(StructTail(T), c, n, g)
    ELSE IF T \in DynTypes THEN <<VTableAddr(build, c, T, g)>>
    ELSE IF T \in SliceTypes \cup StrTypes THEN <<n>>
    ELSE <<>>

\* value as *const T (or as *mut T, or NonNull::from): the pointer to the
\* value at address a.
Reference(T, kind, a, c, n, g) == Ptr(T, kind, <<a>> \o WideWords(T, c, n, g))

\* The values of the metadata type of T that safe code can hold.
MetadataValues(T) ==
    LET of(mty) ==
            IF mty = UnitTy THEN {Unit}
            ELSE IF mty = UsizeTy THEN {Usize(n) : n \in Lens}
            ELSE {DynMetadata(mty[2], VTableAddr(build, k[1][1], mty[2], k[2])) :
                    k \in {k \in TableKeys : k[1][2] = mty[2]}}
    IN  of(PointeeMetadata(T))

\* -------------------------------------------------------- run-time actions

NoHandles == <<None, None>>

\* The threads of the program, and a thread that is in no call.
Threads == 1..NumThreads
IdleThread == [pc |-> "idle", call |-> "", arg |-> <<>>, acc |-> <<>>, ret |-> <<>>]

\* No macro expansion is running.
GenIdle ==
    /\ g_macro = ""
    /\ g_pc = "idle"
    /\ g_nattr = 0
    /\ g_attr = None
    /\ g_toks = <<>>
    /\ g_meta = None
    /\ attributes = DefaultAttributes
    /\ g_shape = ""
    /\ g_input = None
    /\ g_inspected = FALSE
    /\ g_err = NoError
    /\ g_out = <<>>

\* No thread has been started: none is in a call, and no union is live.
NoThreads ==
    /\ threads = [t \in Threads |-> IdleThread]
    /\ repr = [t \in Threads |-> <<>>]

\* The program as built and loaded: the vtables in static memory, and a
\* caller that holds nothing yet.
Init ==
    /\ build \in Builds
    /\ mem = StaticMemory(build)
    /\ op = "start"
    /\ ptr = None
    /\ origin = None
    /\ raw = None
    /\ re_ptr = None
    /\ re_raw = None
    /\ meta = None
    /\ handles = NoHandles
    /\ res = None
    /\ GenIdle
    /\ NoThreads

\* The caller holds nothing: none of its locals is set.
Fresh ==
    /\ ptr = None /\ origin = None /\ raw = None /\ re_ptr = None
    /\ re_raw = None /\ meta = None /\ handles = NoHandles /\ res = None

\* let ptr = value as *const T (test_pointee, line 498), with the value at
\* address a: the first step of a caller.
Coerce ==
    /\ Fresh
    /\ \E T \in RuntimeTypes, kind \in PtrKinds, a \in 1..MaxAddr,
          c \in SizedTypes \cup {""}, n \in Lens \cup {0}, g \in 1..NumCGU :
        /\ ValidReferent(T, c, n)
        /\ g = 1 \/ IsDynTailed(T)
        /\ ptr' = Some(Reference(T, kind, a, c, n, g))
        /\ origin' = Some([addr |-> a, cty |-> c, len |-> n, unit |-> g])
        /\ op' = "coerce"
        /\ UNCHANGED <<build, mem, raw, re_ptr, re_raw, meta, handles, res, gen_vars, conc_vars>>

\* metadata(ptr)
Metadata ==
    /\ ptr # None
    /\ meta' = Some(metadata(ptr[1]))
    /\ op' = "metadata"
    /\ UNCHANGED <<build, mem, ptr, origin, raw, re_ptr, re_raw, handles, res, gen_vars, conc_vars>>

\* let (raw, meta) = PtrExt::to_raw_parts(ptr)
ToRawParts ==
    /\ ptr # None
    /\ raw' = Some(to_raw_parts(ptr[1]))
    /\ re_ptr' = None /\ re_raw' = None
    /\ op' = "to_raw_parts"
    /\ UNCHANGED <<build, mem, ptr, origin, meta, handles, res, gen_vars, conc_vars>>

\* The caller takes a data address and a metadata value from anywhere: the
\* address may be null or dangling and the two need not belong together.
\* A NonNull<()> is not null.
ChooseRawParts ==
    /\ Fresh
    /\ \E T \in RuntimeTypes, kind \in PtrKinds, a \in 0..MaxAddr :
      \E m \in MetadataValues(T) :
        /\ kind = "NonNull" => a # 0
        /\ raw' = Some([raw |-> Ptr("()", kind, <<a>>), meta |-> m])
        /\ op' = "choose_raw_parts"
        /\ UNCHANGED <<build, mem, ptr, origin, re_ptr, re_raw, meta, handles, res, gen_vars, conc_vars>>

\* The pointee types whose metadata type is that of the value m.
TypesOfMetadata(m) == {T \in RuntimeTypes : PointeeMetadata(T) = m.ty}

\* let re_ptr = from_raw_parts::<T>(raw, meta), or from_raw_parts_mut, or
\* NonNullExt::from_raw_parts, as the type of raw selects. After
\* to_raw_parts(ptr), T is the pointee type of ptr.
FromRawParts ==
    /\ raw # None
    /\ \E T \in TypesOfMetadata(raw[1].meta) :
        /\ ptr # None => T = ptr[1].ty
        /\ re_ptr' =
             Some(CASE raw[1].raw.kind = "const" ->
                         from_raw_parts(T, raw[1].raw, raw[1].meta)
                    [] raw[1].raw.kind = "mut" ->
                         from_raw_parts_mut(T, raw[1].raw, raw[1].meta)
                    [] raw[1].raw.kind = "NonNull" ->
                         NonNull_from_raw_parts(T, raw[1].raw, raw[1].meta))
    /\ re_raw' = None
    /\ op' = "from_raw_parts"
    /\ UNCHANGED <<build, mem, ptr, origin, raw, meta, handles, res, gen_vars, conc_vars>>

\* PtrExt::to_raw_parts(re_ptr)
ToRawPartsAgain ==
    /\ re_ptr # None
    /\ re_raw' = Some(to_raw_parts(re_ptr[1]))
    /\ op' = "to_raw_parts_again"
    /\ UNCHANGED <<build, mem, ptr, origin, raw, re_ptr, meta, handles, res, gen_vars, conc_vars>>

\* let h = metadata(value as *const T), or to_raw_parts(..).1, for a T
\* whose metadata is a DynMetadata: the caller keeps the handle in the
\* first slot that is free. The first handle is of a value at address 1;
\* the second is of that same value, of another value of any type at
\* address 2, and of the same type DynMetadata<Dyn>, so that the two can be
\* compared.
HandleOf ==
    /\ ptr = None /\ raw = None
    /\ handles[2] = None
    /\ \E T \in RuntimeTypes, a \in 1..2, c \in SizedTypes,
          g \in 1..NumCGU, via \in {"metadata", "to_raw_parts"} :
       LET i == IF handles[1] = None THEN 1 ELSE 2 IN
        /\ IsDynTailed(T)
        /\ ValidReferent(T, c, 0)
        /\ i = 1 => a = 1
        /\ i = 2 => /\ PointeeMetadata(T) = handles[1][1].h.ty
                    /\ a = 1 => c = handles[1][1].cty
        /\ LET take(p) == IF via = "metadata" THEN metadata(p) ELSE to_raw_parts(p).meta
           IN  handles' = [handles EXCEPT
                    ![i] = Some([h |-> take(Reference(T, "const", a, c, 0, g)),
                                 addr |-> a, cty |-> c, unit |-> g])]
        /\ res' = None
        /\ op' = "handle_of"
        /\ UNCHANGED <<build, mem, ptr, origin, raw, re_ptr, re_raw, meta, gen_vars, conc_vars>>

Query(name, slot, val) == [op |-> name, slot |-> slot, val |-> val]

\* handles[i].size_of()
SizeOf ==
    \E i \in 1..2 :
        /\ handles[i] # None
        /\ res' = Some(Query("size_of", i, size_of(handles[i][1].h)))
        /\ op' = "size_of"
        /\ UNCHANGED <<build, mem, ptr, origin, raw, re_ptr, re_raw, meta, handles, gen_vars, conc_vars>>

\* handles[i].align_of()
AlignOf ==
    \E i \in 1..2 :
        /\ handles[i] # None
        /\ res' = Some(Query("align_of", i, align_of(handles[i][1].h)))
        /\ op' = "align_of"
        /\ UNCHANGED <<build, mem, ptr, origin, raw, re_ptr, re_raw, meta, handles, gen_vars, conc_vars>>

\* handles[i].layout()
Layout ==
    \E i \in 1..2 :
        /\ handles[i] # None
        /\ res' = Some(Query("layout", i, layout(handles[i][1].h)))
        /\ op' = "layout"
        /\ UNCHANGED <<build, mem, ptr, origin, raw, re_ptr, re_raw, meta, handles, gen_vars, conc_vars>>

\* Two handles of one type DynMetadata<Dyn> are held.
Comparable ==
    /\ handles[1] # None
    /\ handles[2] # None
    /\ handles[1][1].h.ty = handles[2][1].h.ty

\* handles[1] == handles[2]
Eq ==
    /\ Comparable
    /\ res' = Some(Query("eq", 0, eq(handles[1][1].h, handles[2][1].h)))
    /\ op' = "eq"
    /\ UNCHANGED <<build, mem, ptr, origin, raw, re_ptr, re_raw, meta, handles, gen_vars, conc_vars>>

\* handles[1].cmp(&handles[2])
Cmp ==
    /\ Comparable
    /\ res' = Some(Query("cmp", 0, cmp(handles[1][1].h, handles[2][1].h)))
    /\ op' = "cmp"
    /\ UNCHANGED <<build, mem, ptr, origin, raw, re_ptr, re_raw, meta, handles, gen_vars, conc_vars>>

\* handles[1].partial_cmp(&handles[2])
PartialCmp ==
    /\ Comparable
    /\ res' = Some(Query("partial_cmp", 0, partial_cmp(handles[1][1].h, handles[2][1].h)))
    /\ op' = "partial_cmp"
    /\ UNCHANGED <<build, mem, ptr, origin, raw, re_ptr, re_raw, meta, handles, gen_vars, conc_vars>>

\* Both handles hashed, each into a fresh hasher.
Hash ==
    /\ Comparable
    /\ res' = Some(Query("hash", 0,
                 <<hash(handles[1][1].h, <<>>), hash(handles[2][1].h, <<>>)>>))
    /\ op' = "hash"
    /\ UNCHANGED <<build, mem, ptr, origin, raw, re_ptr, re_raw, meta, handles, gen_vars, conc_vars>>

\* The caller returns: its locals are gone, the program goes on.
Return ==
    /\ ~Fresh
    /\ ptr' = None /\ origin' = None /\ raw' = None /\ re_ptr' = None
    /\ re_raw' = None /\ meta' = None /\ handles' = NoHandles /\ res' = None
    /\ op' = "start"
    /\ UNCHANGED <<build, mem, gen_vars, conc_vars>>

Next ==
    \/ Return
    \/ Coerce
    \/ Metadata
    \/ ToRawParts
    \/ ChooseRawParts
    \/ FromRawParts
    \/ ToRawPartsAgain
    \/ HandleOf
    \/ SizeOf
    \/ AlignOf
    \/ Layout
    \/ Eq
    \/ Cmp
    \/ PartialCmp
    \/ Hash

Spec == Init /\ [][Next]_vars

\* ------------------------------------------------------ run-time claims

\* The metadata of the tail the value ptr was formed from really has: its
\* length, or the vtable of its concrete type, or nothing.
RECURSIVE TailMetadata(_, _)
TailMetadata(T, o) ==
    IF T \in StructTypes THEN TailMetadata(StructTail(T), o)
    ELSE IF T \in DynTypes THEN DynMetadata(T, VTableAddr(build, o.cty, T, o.unit))
    ELSE IF T \in SliceTypes \cup StrTypes THEN Usize(o.len)
    ELSE Unit

\* C1. Round-trip law: once a pointer formed from a value, of any shape,
\* has been taken apart by to_raw_parts and put together again by
\* from_raw_parts, the rebuilt pointer is the original one: the same data
\* address and the same metadata.
C1_RoundTrip ==
    (ptr # None /\ re_ptr # None) =>
        /\ re_ptr[1] = ptr[1]
        /\ re_ptr[1].bits[1] = origin[1].addr
        /\ metadata(re_ptr[1]) = TailMetadata(ptr[1].ty, origin[1])

\* A pointer to a struct with a trait-object tail has made the round trip.
C1_Witness ==
    /\ ptr # None /\ re_ptr # None
    /\ ptr[1].ty = "TestCustomDyn"
    /\ Len(re_ptr[1].bits) = 2

\* C3. Metadata stability: metadata of a pointer to a slice or a str of N
\* elements is N, whatever the element type and the data address, and
\* metadata of a pointer to a Sized value is ().
C3_MetadataStable ==
    (ptr # None /\ meta # None) =>
        /\ ptr[1].ty \in SliceTypes \cup StrTypes => meta[1] = Usize(origin[1].len)
        /\ ptr[1].ty \in SizedTypes => meta[1] = Unit

\* metadata has answered for a str of a large length at an address other
\* than that length.
C3_Witness ==
    /\ ptr # None /\ meta # None
    /\ ptr[1].ty = "str"
    /\ origin[1].len = LargeLen
    /\ meta[1].bits = <<LargeLen>>

\* C10. Reconstruction is total and unchecked: from any data address, null
\* and dangling ones included, and any metadata value of the shape asked
\* for, from_raw_parts (or from_raw_parts_mut) can be called and returns a
\* pointer whose halves are exactly that address and that metadata.
C10_Unchecked ==
    /\ raw # None => ENABLED FromRawParts
    /\ re_ptr # None => re_ptr[1].bits[1] = raw[1].raw.bits[1]
    /\ re_raw # None => re_raw[1] = raw[1]

\* A null address and a vtable handle, which cannot belong together, have
\* been made a pointer and taken apart again.
C10_Witness ==
    /\ ptr = None /\ re_raw # None
    /\ raw[1].raw.bits = <<0>>
    /\ raw[1].meta.ty = DynMetadataTy("dyn Any")
    /\ re_ptr[1].kind = "const"

\* C2. Composite propagation: the Metadata of a struct the derive was
\* applied to is the Metadata of its last field, so metadata of a pointer
\* to a struct whose tail is a slice of N elements is N, and of one whose
\* tail is a trait object is the handle of the tail's vtable.
C2_CompositePropagation ==
    /\ \A T \in StructTypes : PointeeMetadata(T) = PointeeMetadata(StructTail(T))
    /\ (ptr # None /\ meta # None /\ ptr[1].ty \in StructTypes) =>
            meta[1] = TailMetadata(ptr[1].ty, origin[1])

\* metadata has answered 3 for a Test, one field of fixed size followed by
\* a slice of 3 elements.
C2_Witness ==
    /\ ptr # None /\ meta # None
    /\ ptr[1].ty = "Test"
    /\ origin[1].len = 3
    /\ meta[1] = Usize(3)

\* The two handles held, and the vtable instance each was taken from.
H(i) == handles[i][1]
TableOf(e) == VTableAddr(build, e.cty, e.h.ty[2], e.unit)
Asked(name) == res # None /\ res[1].op = name

\* The words of the vtable instance at address v.
Contents(v) == [i \in 0..(TableStride - 1) |-> mem[v + i]]

\* C4. Equality, order and hash of two handles follow the address of the
\* table alone: equal exactly when both were taken from one table instance,
\* cmp Equal exactly then and otherwise the order of the addresses,
\* partial_cmp never None, equal handles of equal hash, and two tables of
\* the same contents at two addresses unequal.
C4_IdentityOfTable ==
    /\ Asked("eq") => (res[1].val <=> TableOf(H(1)) = TableOf(H(2)))
    /\ Asked("cmp") =>
          /\ res[1].val = "Equal" <=> TableOf(H(1)) = TableOf(H(2))
          /\ res[1].val = "Less" <=> TableOf(H(1)) < TableOf(H(2))
          /\ res[1].val = "Greater" <=> TableOf(H(1)) > TableOf(H(2))
          /\ res[1].val = "Equal" <=> eq(H(1).h, H(2).h)
    /\ Asked("partial_cmp") =>
          /\ res[1].val # None
          /\ res[1].val = Some(cmp(H(1).h, H(2).h))
    /\ Asked("hash") =>
          (TableOf(H(1)) = TableOf(H(2)) => res[1].val[1] = res[1].val[2])

\* Two handles of tables of the same contents at different addresses have
\* been compared, and found unequal.
C4_Witness ==
    /\ Asked("eq")
    /\ TableOf(H(1)) # TableOf(H(2))
    /\ Contents(TableOf(H(1))) = Contents(TableOf(H(2)))
    /\ res[1].val = FALSE

\* Whether the two handles are of one value: one address, one type.
SameValue == H(1).addr = H(2).addr /\ H(1).cty = H(2).cty

IsPowerOfTwo(n) == n \in {1, 2, 4, 8, 16}

\* C6. Layout consistency: for a handle taken from a reference to a value,
\* size_of is the word in slot 1 of the table and align_of the word in
\* slot 2, they are the size and the alignment of the value's concrete
\* type, the alignment is a power of two, and layout is the pair of them.
C6_LayoutConsistent ==
    /\ Asked("size_of") =>
          /\ res[1].val = mem[TableOf(H(res[1].slot)) + 1]
          /\ res[1].val = SizeOfTy(H(res[1].slot).cty)
    /\ Asked("align_of") =>
          /\ res[1].val = mem[TableOf(H(res[1].slot)) + 2]
          /\ res[1].val = AlignOfTy(H(res[1].slot).cty)
          /\ IsPowerOfTwo(res[1].val)
    /\ Asked("layout") =>
          /\ res[1].val.size = size_of(H(res[1].slot).h)
          /\ res[1].val.align = align_of(H(res[1].slot).h)
          /\ res[1].val.size = SizeOfTy(H(res[1].slot).cty)
          /\ res[1].val.align = AlignOfTy(H(res[1].slot).cty)

\* The layout of a u64 behind a dyn Any has been asked for: size 8,
\* alignment 8.
C6_Witness ==
    /\ Asked("layout")
    /\ H(res[1].slot).cty = "u64"
    /\ res[1].val = [size |-> 8, align |-> 8]

\* The two strategies, each on its own: the intrinsics of the miri
\* configuration, and the reads at the fixed offsets of every other.
ByIntrinsic(h) ==
    [size |-> vtable_size(vtable_ptr(h)), align |-> vtable_align(vtable_ptr(h))]
ByFixedOffset(h) ==
    [size |-> read_usize(vtable_ptr(h), SizeSlot),
     align |-> read_usize(vtable_ptr(h), AlignSlot)]

\* C12. Strategy interchangeability: for every handle held, the intrinsics
\* and the reads of slots 1 and 2 give the same size and the same
\* alignment, so what size_of, align_of and layout answer is the same
\* whichever of the two the build selected.
C12_Interchangeable ==
    /\ \A i \in 1..2 :
          handles[i] # None => ByIntrinsic(H(i).h) = ByFixedOffset(H(i).h)
    /\ Asked("size_of") =>
          /\ res[1].val = ByIntrinsic(H(res[1].slot).h).size
          /\ res[1].val = ByFixedOffset(H(res[1].slot).h).size
    /\ Asked("align_of") =>
          /\ res[1].val = ByIntrinsic(H(res[1].slot).h).align
          /\ res[1].val = ByFixedOffset(H(res[1].slot).h).align
    /\ Asked("layout") =>
          /\ res[1].val = ByIntrinsic(H(res[1].slot).h)
          /\ res[1].val = ByFixedOffset(H(res[1].slot).h)

\* A build for miri has answered size_of for a B behind a dyn TestTrait:
\* 4, the word in slot 1 of its vtable.
C12_Witness ==
    /\ build.miri
    /\ Asked("size_of")
    /\ H(res[1].slot).cty = "B"
    /\ res[1].val = 4
    /\ mem[vtable_ptr(H(res[1].slot).h) + SizeSlot] = 4

\* ------------------------------------------------------- macro expansion

\* The argument lists of an attribute.
TokSeqs == UNION {[1..n -> Tokens] : n \in 0..MaxToks}

\* The attributes of an item: those Attributes::parse reads, with any
\* argument list, and those it passes over.
Attrs ==
    {[style |-> "Outer", path |-> "ptr_meta", toks |-> t] : t \in TokSeqs}
    \cup {[style |-> st, path |-> pa, toks |-> t] :
            st \in {"Outer", "Inner"}, pa \in {"ptr_meta", "allow"},
            t \in {<<>>, <<"crate">>}}

\* Field types, generics and where clauses of the items the derive is
\* applied to.
FieldTypes == {"u8", "[T]", "dyn Any"}
FieldSeqs == UNION {[1..n -> FieldTypes] : n \in 0..MaxFields}

Generics ==
    {[params |-> <<>>, preds |-> NoWhere],
     [params |-> <<Param("T", "")>>, preds |-> NoWhere],
     [params |-> <<Param("H", ""), Param("T", "?Sized")>>,
      preds |-> <<[ty |-> "H", bound |-> <<"Copy">>]>>],
     [params |-> <<[name |-> "T", bound |-> "", default |-> "u8"]>>,
      preds |-> <<[ty |-> "T", bound |-> <<"Copy">>]>>]}

DeriveInputs ==
    {[ident |-> "S", data |-> "Struct", style |-> st, fields |-> f,
      params |-> gn.params, preds |-> gn.preds] :
        st \in {"Named", "Unnamed"}, f \in FieldSeqs, gn \in Generics}
    \cup {[ident |-> "S", data |-> d, style |-> "Unit", fields |-> <<>>,
           params |-> gn.params, preds |-> gn.preds] :
        d \in {"Struct", "Enum", "Union"}, gn \in Generics}

\* The items the pointee attribute is applied to: traits, and an item that
\* is no trait.
PointeeItems ==
    {TestTrait, TestTraitGeneric,
     [TestTraitGeneric EXCEPT !.preds = <<[ty |-> "T", bound |-> <<"Copy">>]>>],
     [TestTrait EXCEPT !.keyword = "struct"]}

\* The kind of an item: all that decides whether the derive rejects it.
ShapeOf(input) ==
    IF input.data # "Struct" THEN input.data
    ELSE IF input.fields = <<>> THEN "EmptyStruct" ELSE "Struct"

\* derive_pointee is handed an item, of some kind.
StartDerive ==
    /\ g_pc = "idle"
    /\ g_shape' \in {ShapeOf(input) : input \in DeriveInputs}
    /\ g_macro' = "derive"
    /\ g_pc' = "attrs"
    /\ UNCHANGED <<g_nattr, g_attr, g_toks, g_meta, attributes, g_input, g_inspected, g_err, g_out, rt_vars, conc_vars>>

\* pointee is handed its arguments and an item; the arguments are parsed
\* first (lines 93 to 96).
StartPointee ==
    /\ g_pc = "idle"
    /\ g_shape' \in {item.keyword : item \in PointeeItems}
    /\ \E toks \in TokSeqs :
        /\ g_toks' = toks
        /\ g_pc' = IF toks = <<>> THEN "item" ELSE "meta"
    /\ g_macro' = "pointee"
    /\ UNCHANGED <<g_nattr, g_attr, g_meta, attributes, g_input, g_inspected, g_err, g_out, rt_vars, conc_vars>>

\* Attributes::parse, one turn of its loop: the next attribute of the item
\* is passed over, or its argument list is entered.
NextAttr ==
    /\ g_pc = "attrs"
    /\ g_nattr < MaxAttrs
    /\ \E attr \in Attrs :
        /\ g_attr' = Some(attr)
        /\ IF IsPtrMetaAttr(attr) /\ attr.toks # <<>>
           THEN g_pc' = "meta" /\ g_toks' = attr.toks
           ELSE g_pc' = "attrs" /\ g_toks' = <<>>
    /\ g_nattr' = g_nattr + 1
    /\ UNCHANGED <<g_macro, g_meta, attributes, g_shape, g_input, g_inspected, g_err, g_out, rt_vars, conc_vars>>

\* One nested meta of the argument list: parse_meta is called on it. An
\* error ends the expansion with a compile error and nothing else.
NestedMeta ==
    /\ g_pc = "meta"
    /\ LET r == nested_meta_step(attributes, g_toks) IN
        /\ g_meta' = Some([path |-> Head(g_toks), follows |-> Tail(g_toks),
                            prior |-> attributes.crate_path])
        /\ attributes' = r.attributes
        /\ g_err' = r.err
        /\ IF r.err # NoError
           THEN /\ g_pc' = "done"
                /\ g_out' = to_compile_error(r.err)
                /\ g_toks' = r.input
           ELSE /\ g_pc' = IF r.input # <<>> THEN "meta"
                           ELSE IF g_macro = "derive" THEN "attrs" ELSE "item"
                /\ g_out' = g_out
                /\ g_toks' = r.input
    /\ UNCHANGED <<g_macro, g_nattr, g_attr, g_shape, g_input, g_inspected, rt_vars, conc_vars>>

\* derive_pointee_impl after Attributes::parse, and derive_pointee's match
\* on its result: the item has no further attribute.
Inspect ==
    /\ g_pc = "attrs"
    /\ \E input \in DeriveInputs :
        /\ ShapeOf(input) = g_shape
        /\ g_input' = Some(input)
        /\ LET r == derive_generate(input, attributes) IN
            /\ g_err' = r.err
            /\ g_out' = IF r.err # NoError THEN to_compile_error(r.err) ELSE r.out
    /\ g_inspected' = TRUE
    /\ g_pc' = "done"
    /\ UNCHANGED <<g_macro, g_nattr, g_attr, g_toks, g_meta, attributes, g_shape, rt_vars, conc_vars>>

\* pointee after its arguments: the item is parsed as a trait, and
\* pointee_impl is called on it.
PointeeItem ==
    /\ g_pc = "item"
    /\ \E item \in PointeeItems :
        /\ item.keyword = g_shape
        /\ g_input' = Some(item)
        /\ IF item.keyword # "trait"
           THEN /\ g_err' = "expected trait"
                /\ g_out' = to_compile_error("expected trait")
           ELSE LET r == pointee_impl(attributes, item) IN
                /\ g_err' = r.err
                /\ g_out' = IF r.err # NoError THEN to_compile_error(r.err) ELSE r.out
    /\ g_inspected' = TRUE
    /\ g_pc' = "done"
    /\ UNCHANGED <<g_macro, g_nattr, g_attr, g_toks, g_meta, attributes, g_shape, rt_vars, conc_vars>>

NextGen ==
    \/ StartDerive
    \/ StartPointee
    \/ NextAttr
    \/ NestedMeta
    \/ Inspect
    \/ PointeeItem

\* One build is enough to expand macros in.
InitGen == Init /\ build = [dup |-> FALSE, merge |-> FALSE, miri |-> FALSE]

SpecGen == InitGen /\ [][NextGen]_vars

\* --------------------------------------------------- macro expansion claims

\* The associations in a token stream.
ImplsOf(out) == {i \in 1..Len(out) : out[i].kind = "impl"}

Expanded(m) == g_macro = m /\ g_pc = "done"

\* C7. Generator rejection: the derive applied to a struct without fields
\* (unit, empty braced, empty tuple), to an enum or to a union ends in a
\* compile error and emits no association.
C7_GeneratorRejects ==
    (Expanded("derive") /\ g_shape \in {"EmptyStruct", "Enum", "Union"}) =>
        /\ g_err # NoError
        /\ g_out = to_compile_error(g_err)
        /\ ImplsOf(g_out) = {}

\* An empty tuple struct, its attributes accepted, has been rejected for
\* having no field.
C7_Witness ==
    /\ Expanded("derive")
    /\ g_inspected
    /\ g_input[1].data = "Struct" /\ g_input[1].style = "Unnamed"
    /\ g_input[1].fields = <<>>
    /\ attributes.crate_path = Some("foo")
    /\ g_out = to_compile_error("fieldless structs always have a provided Poitnee impl because they cannot be dynamically-sized")

\* The two forms of option that are accepted, as the nested meta last
\* parsed: crate alone, and crate = <path>.
BareCrate(m) == m.path = "crate" /\ (m.follows = <<>> \/ Head(m.follows) = ",")
CrateEq(m) ==
    /\ m.path = "crate"
    /\ Len(m.follows) >= 2
    /\ m.follows[1] = "="
    /\ IsPathTok(m.follows[2])

\* C8. Option parsing: crate alone sets the target to the path crate,
\* crate = <path> sets it to that path, and without an option the target is
\* ::ptr_meta. An option of another name, or crate followed by anything but
\* =, a comma or the end, is a compile error; in the derive the error comes
\* before the shape is looked at, and no association is emitted.
C8_OptionParsing ==
    /\ g_meta # None =>
        LET m == g_meta[1] IN
        /\ (BareCrate(m) /\ m.prior = None) =>
                /\ attributes.crate_path = Some("crate")
                /\ ~g_inspected => g_err = NoError
        /\ (CrateEq(m) /\ m.prior = None) =>
                attributes.crate_path = Some(m.follows[2])
        /\ (IsPathTok(m.path) /\ m.path # "crate") =>
                g_err = "unrecognized ptr_meta argument"
        /\ (m.path = "crate" /\ m.follows # <<>> /\ Head(m.follows) \notin {"=", ","}) =>
                g_err = "expected crate or crate = ..."
        /\ (~BareCrate(m) /\ ~CrateEq(m)) =>
                /\ g_pc = "done"
                /\ g_err # NoError
                /\ g_out = to_compile_error(g_err)
                /\ ~g_inspected /\ g_input = None
    /\ (g_pc = "done" /\ g_err = NoError) =>
        /\ \A i \in ImplsOf(g_out) : g_out[i].trait = <<crate_path(attributes), "Pointee">>
        /\ ImplsOf(g_out) # {}
        /\ attributes.crate_path = None => crate_path(attributes) = "::ptr_meta"
        /\ g_meta = None => attributes.crate_path = None
    /\ (Expanded("derive") /\ g_err # NoError /\ ~g_inspected) =>
        /\ g_input = None
        /\ ImplsOf(g_out) = {}

\* The derive on a struct with fields: crate = foo was accepted, then an
\* option of another name ended the expansion before the struct was
\* looked at.
C8_Witness ==
    /\ Expanded("derive")
    /\ g_shape = "Struct"
    /\ attributes.crate_path = Some("foo")
    /\ g_meta # None /\ g_meta[1].path = "foo"
    /\ g_err = "unrecognized ptr_meta argument"
    /\ ~g_inspected
    /\ g_out = to_compile_error(g_err)

\* C9. Dispatch-contract association: the pointee attribute on a trait
\* emits the trait as it was, and exactly one association: from the trait
\* object of that trait, with its generic parameters and no marker, to
\* DynMetadata of that same trait object. The combinations with Send and
\* Sync are each declared on their own, as impls.rs does for dyn Any.
C9_ContractAssociation ==
    /\ (Expanded("pointee") /\ g_err = NoError) =>
        /\ Len(g_out) = 2
        /\ g_out[1] = [kind |-> "trait", item |-> g_input[1]]
        /\ ImplsOf(g_out) = {2}
        /\ g_out[2].self_ty =
              [dyn |-> g_input[1].ident,
               ty_generics |-> [i \in 1..Len(g_input[1].params) |-> g_input[1].params[i].name],
               markers |-> {}, lifetime |-> "'_"]
        /\ g_out[2].Metadata = <<crate_path(attributes), "DynMetadata", "Self">>
        /\ g_out[2].trait = <<crate_path(attributes), "Pointee">>
        /\ g_out[2].impl_generics = g_input[1].params
        /\ g_out[2].where = g_input[1].preds
    /\ \A i \in AnyImpls : i.Metadata = <<"DynMetadata", i.self_ty>>
    /\ {i.self_ty.markers : i \in AnyImpls} = SUBSET {"Send", "Sync"}

\* The attribute, with crate = foo, has been expanded on a generic trait
\* with a where clause.
C9_Witness ==
    /\ Expanded("pointee") /\ g_err = NoError
    /\ g_input[1].params # <<>> /\ g_input[1].preds # <<>>
    /\ attributes.crate_path = Some("foo")
    /\ Len(g_out) = 2

\* The derive has emitted an association for the item it was handed.
Derived == Expanded("derive") /\ g_err = NoError

\* The type of the last field of the item.
TailOf(input) == input.fields[Len(input.fields)]

\* C13. Conditional, generic-preserving association: for a struct with at
\* least one field the derive emits one association, for the struct with
\* its generic parameters: every parameter with its name and its bound, in
\* order, every where-constraint of the struct, in order, and after them
\* exactly one more constraint, that the type of the last field has a
\* Pointee association, whose Metadata the association takes. A struct
\* generic over the element type of its tail stays generic over it.
C13_GenericPreserving ==
    /\ (Expanded("derive") /\ g_inspected /\ g_shape = "Struct") => g_err = NoError
    /\ Derived =>
        /\ g_shape = "Struct"
        /\ Len(g_out) = 1
        /\ g_out[1].kind = "impl"
        /\ g_out[1].self_ty.ident = g_input[1].ident
        /\ Len(g_out[1].impl_generics) = Len(g_input[1].params)
        /\ \A i \in 1..Len(g_input[1].params) :
              /\ g_out[1].impl_generics[i].name = g_input[1].params[i].name
              /\ g_out[1].impl_generics[i].bound = g_input[1].params[i].bound
              /\ g_out[1].self_ty.ty_generics[i] = g_input[1].params[i].name
        /\ Len(g_out[1].self_ty.ty_generics) = Len(g_input[1].params)
        /\ Len(g_out[1].where) = Len(g_input[1].preds) + 1
        /\ SubSeq(g_out[1].where, 1, Len(g_input[1].preds)) = g_input[1].preds
        /\ g_out[1].where[Len(g_out[1].where)] =
              [ty |-> TailOf(g_input[1]),
               bound |-> <<crate_path(attributes), "Pointee">>]
        /\ g_out[1].Metadata =
              [qself |-> TailOf(g_input[1]),
               trait |-> <<crate_path(attributes), "Pointee">>,
               name |-> "Metadata"]

\* The derive has been applied to a struct of two generic parameters with
\* a where clause, whose last field is a slice of T: the association has
\* both parameters, the constraint on H, and the one on [T].
C13_Witness ==
    /\ Derived
    /\ Len(g_input[1].params) = 2
    /\ g_input[1].preds = <<[ty |-> "H", bound |-> <<"Copy">>]>>
    /\ g_input[1].fields = <<"u8", "[T]">>
    /\ g_out[1].where = <<[ty |-> "H", bound |-> <<"Copy">>],
                          [ty |-> "[T]", bound |-> <<"::ptr_meta", "Pointee">>]>>
    /\ g_out[1].self_ty.ty_generics = <<"H", "T">>

\* The nested meta last parsed is a crate option, in one of its two forms.
CrateOption(m) == BareCrate(m) \/ CrateEq(m)

\* What the last nested meta left: a first crate option has stored its
\* path; a later one has ended the expansion with crate already specified
\* and left the stored path as it was.
SetOnce ==
    g_meta # None =>
        /\ (CrateOption(g_meta[1]) /\ g_meta[1].prior = None) =>
              attributes.crate_path =
                  Some(IF BareCrate(g_meta[1]) THEN "crate" ELSE g_meta[1].follows[2])
        /\ (CrateOption(g_meta[1]) /\ g_meta[1].prior # None) =>
              /\ g_err = "crate already specified"
              /\ g_pc = "done"
              /\ g_out = to_compile_error("crate already specified")
              /\ attributes.crate_path = g_meta[1].prior

\* A step keeps a path that is stored.
KeepsStoredPath ==
    attributes.crate_path # None => attributes'.crate_path = attributes.crate_path

\* A step of Attributes::parse to an attribute of inner style, or of
\* another name than ptr_meta, goes on to the next attribute: its
\* arguments are not read, and the stored path is not changed.
PassesOver ==
    (/\ g_pc = "attrs" /\ g_nattr' = g_nattr + 1
     /\ (g_attr'[1].style = "Inner" \/ g_attr'[1].path # "ptr_meta")) =>
        /\ attributes' = attributes
        /\ g_pc' = "attrs"
        /\ g_meta' = g_meta
        /\ g_err' = g_err

\* C14. The association target is set at most once per declaration: over
\* the options of all the outer ptr_meta attributes of one item, in order,
\* the first crate or crate = <path> stores its path, a later crate option
\* is rejected with crate already specified and the stored path stays the
\* first one; attributes of inner style and attributes not named ptr_meta
\* never change it.
C14_SetAtMostOnce ==
    /\ []SetOnce
    /\ [][KeepsStoredPath /\ PassesOver]_vars

\* The derive on an item of two attributes, #[ptr_meta(crate = foo)] and
\* #[ptr_meta(crate)]: the second has been rejected, the path is foo.
C14_Witness ==
    /\ Expanded("derive")
    /\ g_nattr = 2
    /\ g_meta # None /\ BareCrate(g_meta[1]) /\ g_meta[1].prior = Some("foo")
    /\ g_err = "crate already specified"
    /\ attributes.crate_path = Some("foo")

\* ------------------------------------------------------------- threads

\* The pointers and handles the threads pass: a slice and two trait
\* objects of one contract, and the handles of those two.
ConcPointers ==
    {Reference("[i32]", "const", 1, "", MaxLen, 1),
     Reference("dyn TestTrait", "const", 1, "A", 0, 1),
     Reference("dyn TestTrait", "const", MaxAddr, "B", 0, NumCGU)}

ConcHandles == {metadata(p) : p \in {q \in ConcPointers : IsDynTailed(q.ty)}}

Calls == {"metadata", "to_raw_parts", "from_raw_parts", "size_of", "align_of", "layout"}

\* The arguments a call is made with.
ArgsOf(call) ==
    IF call \in {"metadata", "to_raw_parts"} THEN ConcPointers
    ELSE IF call = "from_raw_parts"
    THEN {[ty |-> p.ty, raw |-> CastToRaw(p), meta |-> metadata(p)] : p \in ConcPointers}
    ELSE ConcHandles

\* What the call returns when nothing else runs: the function applied to
\* its argument in one step.
Alone(call, arg) ==
    CASE call = "metadata" -> metadata(arg)
      [] call = "to_raw_parts" -> to_raw_parts(arg)
      [] call = "from_raw_parts" -> from_raw_parts(arg.ty, arg.raw, arg.meta)
      [] call = "size_of" -> size_of(arg)
      [] call = "align_of" -> align_of(arg)
      [] call = "layout" -> layout(arg)

\* A slip: the union is a static, one for all threads.
ReprSlot_static(t) == 1

\* Where the PtrRepr union of a call lives: a temporary on the stack of
\* the calling thread.
ReprSlot(t) == t

\* A thread calls a function of the crate.
Call(t) ==
    /\ threads[t].pc = "idle"
    /\ \E call \in Calls : \E arg \in ArgsOf(call) :
        threads' = [threads EXCEPT
            ![t] = [pc |-> "called", call |-> call, arg |-> arg,
                    acc |-> <<>>, ret |-> <<>>]]
    /\ UNCHANGED <<rt_vars, gen_vars, repr>>

\* PtrRepr { const_ptr: ptr } in metadata, PtrRepr { components: ... } in
\* from_raw_parts: the union is written through one of its fields.
Construct(t) ==
    /\ threads[t].pc = "called"
    /\ threads[t].call \in {"metadata", "to_raw_parts", "from_raw_parts"}
    /\ repr' = [repr EXCEPT ![ReprSlot(t)] =
                    IF threads[t].call = "from_raw_parts"
                    THEN PtrRepr_components(threads[t].arg.raw, threads[t].arg.meta)
                    ELSE threads[t].arg.bits]
    /\ threads' = [threads EXCEPT ![t].pc = "built"]
    /\ UNCHANGED <<rt_vars, gen_vars>>

\* .components.metadata in metadata, .const_ptr in from_raw_parts: the
\* union is read through the other field, and the temporary is dropped.
ReadField(t) ==
    /\ threads[t].pc = "built"
    /\ \E words \in {repr[ReprSlot(t)]} :
        threads' = [threads EXCEPT
            ![t].pc = "ret",
            ![t].ret =
                IF threads[t].call = "metadata"
                THEN Some(PtrRepr_metadata(threads[t].arg.ty, words))
                ELSE IF threads[t].call = "to_raw_parts"
                THEN Some([raw |-> CastToRaw(threads[t].arg),
                           meta |-> PtrRepr_metadata(threads[t].arg.ty, words)])
                ELSE Some(Ptr(threads[t].arg.ty, "const", words))]
    /\ repr' = [repr EXCEPT ![ReprSlot(t)] = <<>>]
    /\ UNCHANGED <<rt_vars, gen_vars>>

\* size_of, alone or as the first half of layout: one read of the vtable.
ReadSize(t) ==
    /\ threads[t].pc = "called"
    /\ threads[t].call \in {"size_of", "layout"}
    /\ \E size \in {size_of(threads[t].arg)} :
        threads' = [threads EXCEPT
            ![t].pc = IF threads[t].call = "size_of" THEN "ret" ELSE "sized",
            ![t].acc = <<size>>,
            ![t].ret = IF threads[t].call = "size_of" THEN Some(size) ELSE <<>>]
    /\ UNCHANGED <<rt_vars, gen_vars, repr>>

\* align_of, alone or as the second half of layout: one read of the vtable.
ReadAlign(t) ==
    /\ \/ threads[t].pc = "called" /\ threads[t].call = "align_of"
       \/ threads[t].pc = "sized" /\ threads[t].call = "layout"
    /\ \E align \in {align_of(threads[t].arg)} :
        threads' = [threads EXCEPT
            ![t].pc = "ret",
            ![t].ret =
                IF threads[t].call = "align_of" THEN Some(align)
                ELSE Some(from_size_align_unchecked(threads[t].acc[1], align))]
    /\ UNCHANGED <<rt_vars, gen_vars, repr>>

\* The call returns to the thread.
ReturnTo(t) ==
    /\ threads[t].pc = "ret"
    /\ threads' = [threads EXCEPT ![t] = IdleThread]
    /\ UNCHANGED <<rt_vars, gen_vars, repr>>

NextConc ==
    \E t \in Threads :
        \/ Call(t)
        \/ Construct(t)
        \/ ReadField(t)
        \/ ReadSize(t)
        \/ ReadAlign(t)
        \/ ReturnTo(t)

\* The threads of one program, each calling at its own pace.
SpecConc == Init /\ [][NextConc]_vars

\* Each call in flight or returned is as it would be had it run alone: a
\* returned call has the result of the function applied in one step, and a
\* union is held by the thread that wrote it and by no other.
AsAlone ==
    \A t \in Threads :
        /\ threads[t].pc = "ret" =>
              threads[t].ret = Some(Alone(threads[t].call, threads[t].arg))
        /\ threads[t].pc = "built" =>
              repr[t] = IF threads[t].call = "from_raw_parts"
                        THEN threads[t].arg.raw.bits \o threads[t].arg.meta.bits
                        ELSE threads[t].arg.bits
        /\ threads[t].pc # "built" => repr[t] = <<>>

\* C11. Concurrency: however the steps of the threads' calls to metadata,
\* to_raw_parts, from_raw_parts, size_of, align_of and layout interleave,
\* every call returns what it returns when run alone, and no step writes
\* static memory: the vtables are as the build laid them out at the start
\* and no step of any thread changes them.
C11_Concurrent ==
    /\ mem = StaticMemory(build)
    /\ [][mem' = mem /\ build' = build]_vars
    /\ []AsAlone

\* Two calls are in flight at once: one thread has written its union in
\* from_raw_parts, while another has returned from layout, having read the
\* size and the alignment of B in two steps.
C11_Witness ==
    /\ \E t \in Threads, u \in Threads :
        /\ t # u
        /\ threads[t].pc = "built" /\ threads[t].call = "from_raw_parts"
        /\ threads[u].pc = "ret" /\ threads[u].call = "layout"
        /\ threads[u].ret = Some([size |-> 4, align |-> 4])
    /\ ~build.miri

====
